---- MODULE Spec2Model ----
(***************************************************************************)
(* Model of main.py: the VK album -> Yandex Disk copy script.             *)
(*                                                                         *)
(* The module has three entry points: the `__main__` block and the two    *)
(* public methods VKClient.get_photos_info and DiskClient.upload_files.    *)
(* Every HTTP round trip (requests.get/put/post followed by                *)
(* response_processing) is one step: the calls are synchronous.           *)
(***************************************************************************)
EXTENDS Integers, Sequences, FiniteSets, TLC

(* ------------------------------ bounds -------------------------------- *)

\* Longest album / files_info list explored.
MaxPhotos == 3

(* --------------------------- Python values ---------------------------- *)

\* Python's None and a present value, as a sequence of length 0 or 1.
None == <<>>
Some(v) == <<v>>

\* str(d) for one decimal digit.
DigitChar(d) ==
    CASE d = 0 -> "0" [] d = 1 -> "1" [] d = 2 -> "2" [] d = 3 -> "3"
      [] d = 4 -> "4" [] d = 5 -> "5" [] d = 6 -> "6" [] d = 7 -> "7"
      [] d = 8 -> "8" [] d = 9 -> "9"

\* f"{n}" for a non-negative int: its decimal digits.
RECURSIVE FormatInt(_)
FormatInt(n) ==
    IF n < 10 THEN DigitChar(n)
    ELSE FormatInt(n \div 10) \o DigitChar(n % 10)

\* strftime's %d and %m: two digits, zero padded.
Pad2(n) == DigitChar(n \div 10) \o DigitChar(n % 10)

\* time.localtime(t): the calendar date of unix time t in the local time
\* zone, utc_offset seconds east of UTC (proleptic Gregorian calendar).
localtime(t, utc_offset) ==
    LET days == (t + utc_offset) \div 86400
        z    == days + 719468
        era  == z \div 146097
        doe  == z - era * 146097
        yoe  == (doe - doe \div 1460 + doe \div 36524 - doe \div 146096) \div 365
        doy  == doe - (365 * yoe + yoe \div 4 - yoe \div 100)
        mp   == (5 * doy + 2) \div 153
        d    == doy - (153 * mp + 2) \div 5 + 1
        m    == IF mp < 10 THEN mp + 3 ELSE mp - 9
        y    == yoe + era * 400 + (IF m <= 2 THEN 1 ELSE 0)
    IN  [tm_mday |-> d, tm_mon |-> m, tm_year |-> y]

\* Variant of strftime with the day of the month left out of the format.
strftime_month_year(tm) == Pad2(tm.tm_mon) \o "_" \o FormatInt(tm.tm_year)

\* time.strftime('%d_%m_%Y', tm)
strftime(tm) ==
    Pad2(tm.tm_mday) \o "_" \o Pad2(tm.tm_mon) \o "_" \o FormatInt(tm.tm_year)

\* An uncaught exception ends the interpreter with status 1; exit() with no
\* argument raises SystemExit(None), which ends it with status 0.
ExitStatus(exc) == IF exc = "SystemExit" THEN 0 ELSE 1

(* ------------------------- inputs explored ---------------------------- *)

\* UTC offsets of the machine's local time zone (UTC, UTC+3).
TimeZones == {0, 3 * 3600}

\* 2021-05-01 12:00 and 21:00 UTC: one calendar date under UTC, the 1st and
\* the 2nd of May under UTC+3.
Dates == {1619870400, 1619902800}

Likes == {5, 7}

Media == { [url |-> "https://vk/a.jpg", height |-> 600, width |-> 800],
           [url |-> "https://vk/b.jpg", height |-> 800, width |-> 600] }

\* The dictionaries get_photos_info builds and upload_files consumes.
Photos ==
    { [likes |-> l, url |-> m.url, date |-> d, height |-> m.height, width |-> m.width] :
        l \in Likes, d \in Dates, m \in Media }

\* An item of the photos.get answer.
VKItem(p) ==
    [likes |-> [count |-> p.likes],
     orig_photo |-> [url |-> p.url, height |-> p.height, width |-> p.width],
     date |-> p.date]

SeqUpTo(S, n) == UNION { [1..k -> S] : k \in 0..n }

StatusCodes == {200, 400, 499, 500, 599}

\* Links the Disk API may answer with: the folder's, and for the k-th
\* upload the link of the operation it started (a new one per request).
FolderHrefs == {"https://disk/folder"}
UploadHrefs(k) == {"https://disk/operations/" \o FormatInt(k)}

\* Response bodies: not JSON at all, or a JSON object with the named keys.
NotJson == [kind |-> "not_json", error |-> None, href |-> None, items |-> None]
JsonBody(error, href, items) ==
    [kind |-> "json", error |-> error, href |-> href, items |-> items]
ErrorBody == JsonBody(Some([error_msg |-> "Access denied"]), None, None)
EmptyJson == JsonBody(None, None, None)

Failed(status) == 400 <= status /\ status < 600

\* What a Disk endpoint may answer; an answer with an error status is
\* explored with a body that is not JSON, one with an error object and one
\* with a link.
DiskResponses(hrefs) ==
    { r \in [status : StatusCodes,
             body : {NotJson, ErrorBody, EmptyJson} \cup
                    { JsonBody(None, Some(h), None) : h \in hrefs }] :
        Failed(r.status) => r.body # EmptyJson }

\* What photos.get may answer; an answer with an error status is explored
\* with one album only.
VKResponses ==
    { r \in [status : StatusCodes,
             body : {NotJson, ErrorBody, EmptyJson} \cup
                    { JsonBody(None, None, Some([i \in DOMAIN s |-> VKItem(s[i])])) :
                        s \in SeqUpTo(Photos, MaxPhotos) }] :
        Failed(r.status) =>
            (r.body = NotJson \/
             (r.body.items # None /\ Len(r.body.items[1]) = 0)) }

(* ------------------------------ state --------------------------------- *)

VARIABLES
    entry,            \* which entry point of the module runs
    pc,               \* position of the single thread of control
    utc_offset,       \* the machine's local time zone
    main_locals,      \* vk_token, user_id, album_id of the __main__ block
    vk_params,        \* VKClient.__params
    disk_headers,     \* DiskClient.__headers
    album_id,         \* argument of get_photos_info
    photos_info,      \* value returned by get_photos_info (None before)
    files_info,       \* argument of upload_files
    dirname,          \* argument of upload_files
    duplicate_names,  \* local of upload_files
    output_json,      \* local of upload_files: the manifest being built
    idx,              \* number of completed iterations of the upload loop
    response_json,    \* value returned by upload_files (None before)
    calls,            \* HTTP requests issued so far, in order
    responses,        \* HTTP responses received so far, in order
    stdout,           \* lines printed so far
    raised,           \* the exception that ended the run ("" if none)
    exit_status,      \* the interpreter's exit status once pc = "halted"
    output_file       \* content of output.json (None while not written)

vars == <<entry, pc, utc_offset, main_locals, vk_params, disk_headers, album_id,
          photos_info, files_info, dirname, duplicate_names, output_json, idx,
          response_json, calls, responses, stdout, raised, exit_status, output_file>>

VK_BASE_URL == "https://api.vk.com/method"
DISK_BASE_URL == "https://cloud-api.yandex.net/v1/disk/resources"

(* ------------------------ response_processing ------------------------- *)

Returns == [out |-> "return", exc |-> "", lines |-> <<>>]
Exits(line) == [out |-> "raise", exc |-> "SystemExit", lines |-> <<line>>]
Raises(exc) == [out |-> "raise", exc |-> exc, lines |-> <<>>]

\* Variant: the client-error range starts one code too late.
response_processing_late_4xx(response) ==
    LET code == response.status IN
    IF 400 < code /\ code < 500
    THEN Exits("Client error " \o FormatInt(code))
    ELSE IF 500 <= code /\ code < 600
    THEN Exits("Server error " \o FormatInt(code))
    ELSE IF response.body.kind = "not_json"
    THEN Raises("JSONDecodeError")
    ELSE IF response.body.error # None
    THEN Exits("Error. " \o response.body.error[1].error_msg)
    ELSE Returns

\* Variant: the error key of the body is not looked at.
response_processing_no_error_key(response) ==
    LET code == response.status IN
    IF 400 <= code /\ code < 500
    THEN Exits("Client error " \o FormatInt(code))
    ELSE IF 500 <= code /\ code < 600
    THEN Exits("Server error " \o FormatInt(code))
    ELSE IF response.body.kind = "not_json"
    THEN Raises("JSONDecodeError")
    ELSE Returns

\* Variant: a server error is reported but the run goes on (no exit()).
response_processing_no_exit_5xx(response) ==
    LET code == response.status IN
    IF 400 <= code /\ code < 500
    THEN Exits("Client error " \o FormatInt(code))
    ELSE IF response.body.kind = "not_json"
    THEN Raises("JSONDecodeError")
    ELSE IF response.body.error # None
    THEN Exits("Error. " \o response.body.error[1].error_msg)
    ELSE Returns

response_processing(response) ==
    LET code == response.status IN
    IF 400 <= code /\ code < 500
    THEN Exits("Client error " \o FormatInt(code))
    ELSE IF 500 <= code /\ code < 600
    THEN Exits("Server error " \o FormatInt(code))
    ELSE IF response.body.kind = "not_json"
    THEN Raises("JSONDecodeError")
    ELSE IF response.body.error # None
    THEN Exits("Error. " \o response.body.error[1].error_msg)
    ELSE Returns

\* An exception nobody catches: the interpreter stops.
Terminate(exc, lines) ==
    /\ pc' = "halted"
    /\ raised' = exc
    /\ exit_status' = ExitStatus(exc)
    /\ stdout' = stdout \o lines

(* ------------------------------ VKClient ------------------------------ *)

VKClient_init(vk_token, user_id, version) ==
    [access_token |-> vk_token, owner_id |-> user_id, extended |-> "1", v |-> version]

\* The dictionary built for one item of the answer.
PhotoInfo(item) ==
    [likes |-> item.likes.count, url |-> item.orig_photo.url, date |-> item.date,
     height |-> item.orig_photo.height, width |-> item.orig_photo.width]

get_photos_info ==
    /\ pc = "get_photos_info"
    /\ \E response \in VKResponses :
         LET request == [method |-> "GET", url |-> VK_BASE_URL \o "/photos.get",
                         params |-> [access_token |-> vk_params.access_token,
                                     owner_id |-> vk_params.owner_id,
                                     extended |-> vk_params.extended,
                                     v |-> vk_params.v, album_id |-> album_id]]
             checked == response_processing(response)
         IN  /\ calls' = Append(calls, request)
             /\ responses' = Append(responses, response)
             /\ IF checked.out = "raise"
                THEN Terminate(checked.exc, checked.lines) /\ UNCHANGED photos_info
                ELSE IF response.body.items = None
                THEN Terminate("KeyError", <<>>) /\ UNCHANGED photos_info
                ELSE /\ photos_info' =
                          Some([i \in DOMAIN response.body.items[1] |->
                                   PhotoInfo(response.body.items[1][i])])
                     /\ pc' = IF entry = "__main__" THEN "L157" ELSE "returned"
                     /\ UNCHANGED <<raised, exit_status, stdout>>
    /\ UNCHANGED <<entry, utc_offset, main_locals, vk_params, disk_headers, album_id,
                   files_info, dirname, duplicate_names, output_json, idx,
                   response_json, output_file>>

(* ----------------------------- DiskClient ----------------------------- *)

DiskClient_init(ya_token) == [Authorization |-> ya_token]

\* Variant of DuplicateNames: a like-count counts as duplicated from its
\* third occurrence on.
DuplicateNames_more_than_two(infos) ==
    { infos[i].likes : i \in { k \in DOMAIN infos :
          Cardinality({ j \in DOMAIN infos : infos[j].likes = infos[k].likes }) > 2 } }

\* names.count(name) > 1 for the like-counts of the list; the None the set
\* comprehension also yields equals no like-count and is left out.
DuplicateNames(infos) ==
    { infos[i].likes : i \in { k \in DOMAIN infos :
          Cardinality({ j \in DOMAIN infos : infos[j].likes = infos[k].likes }) > 1 } }

\* The file name of one record.
FileName(info, duplicates, offset) ==
    LET base_name == FormatInt(info.likes) IN
    IF info.likes \in duplicates
    THEN base_name \o "-" \o strftime(localtime(info.date, offset))
    ELSE base_name

\* time.time() at the start of the upload pass.
Clock == {1700000000}

\* Variant of ManifestItem with height and width exchanged.
ManifestItem_swapped(filename, href, info) ==
    [name |-> filename, href |-> href, height |-> info.width, width |-> info.height]

\* The dictionary appended to items (lines 137-140).
ManifestItem(filename, href, info) ==
    [name |-> filename, href |-> href, height |-> info.height, width |-> info.width]

\* The request of __create_dir (lines 93-94).
create_dir_request(path, headers) ==
    [method |-> "PUT", url |-> DISK_BASE_URL, params |-> [path |-> path],
     headers |-> headers]

\* Variant of upload_request: the target path lacks the folder.
upload_request_no_folder(folder, filename, info, headers) ==
    [method |-> "POST", url |-> DISK_BASE_URL \o "/upload",
     params |-> [path |-> filename, url |-> info.url], headers |-> headers]

\* The request of one loop iteration (lines 133-134).
upload_request(folder, filename, info, headers) ==
    [method |-> "POST", url |-> DISK_BASE_URL \o "/upload",
     params |-> [path |-> folder \o "/" \o filename, url |-> info.url],
     headers |-> headers]

\* Lines 118-128: the duplicate like-counts, then __create_dir, then the
\* empty manifest.
upload_files_start ==
    /\ pc = "upload_files"
    /\ \E response \in DiskResponses(FolderHrefs), now \in Clock :
         LET request == create_dir_request(dirname, disk_headers)
             checked == response_processing(response)
         IN  /\ duplicate_names' = DuplicateNames(files_info)
             /\ calls' = Append(calls, request)
             /\ responses' = Append(responses, response)
             /\ IF checked.out = "raise"
                THEN Terminate(checked.exc, checked.lines) /\ UNCHANGED output_json
                ELSE IF response.body.href = None
                THEN Terminate("KeyError", <<>>) /\ UNCHANGED output_json
                ELSE /\ output_json' = Some([href |-> response.body.href[1],
                                             name |-> dirname, date |-> now,
                                             count |-> Len(files_info), items |-> <<>>])
                     /\ pc' = "upload_loop"
                     /\ UNCHANGED <<raised, exit_status, stdout>>
    /\ idx' = 0
    /\ UNCHANGED <<entry, utc_offset, main_locals, vk_params, disk_headers, album_id,
                   photos_info, files_info, dirname, response_json, output_file>>

\* Lines 130-140: one iteration of the loop over files_info.
upload_files_iteration ==
    /\ pc = "upload_loop"
    /\ idx < Len(files_info)
    /\ \E response \in DiskResponses(UploadHrefs(idx + 1)) :
         LET info == files_info[idx + 1]
             filename == FileName(info, duplicate_names, utc_offset)
             request == upload_request(dirname, filename, info, disk_headers)
             checked == response_processing(response)
         IN  /\ calls' = Append(calls, request)
             /\ responses' = Append(responses, response)
             /\ IF checked.out = "raise"
                THEN Terminate(checked.exc, checked.lines) /\ UNCHANGED <<output_json, idx>>
                ELSE IF response.body.href = None
                THEN Terminate("KeyError", <<>>) /\ UNCHANGED <<output_json, idx>>
                ELSE /\ output_json' =
                          Some([output_json[1] EXCEPT !.items =
                                  Append(@, ManifestItem(filename, response.body.href[1], info))])
                     /\ idx' = idx + 1
                     /\ UNCHANGED <<pc, raised, exit_status, stdout>>
    /\ UNCHANGED <<entry, utc_offset, main_locals, vk_params, disk_headers, album_id,
                   photos_info, files_info, dirname, duplicate_names,
                   response_json, output_file>>

\* Variant of upload_files_return: the return statement sits inside the
\* loop body, so the manifest is returned after the first iteration.
upload_files_return_in_loop ==
    /\ pc = "upload_loop"
    /\ idx = (IF Len(files_info) = 0 THEN 0 ELSE 1)
    /\ response_json' = output_json
    /\ pc' = IF entry = "__main__" THEN "L165" ELSE "returned"
    /\ UNCHANGED <<entry, utc_offset, main_locals, vk_params, disk_headers, album_id,
                   photos_info, files_info, dirname, duplicate_names, output_json, idx,
                   calls, responses, stdout, raised, exit_status, output_file>>

\* Line 142: the loop is exhausted and the manifest is returned.
upload_files_return ==
    /\ pc = "upload_loop"
    /\ idx = Len(files_info)
    /\ response_json' = output_json
    /\ pc' = IF entry = "__main__" THEN "L165" ELSE "returned"
    /\ UNCHANGED <<entry, utc_offset, main_locals, vk_params, disk_headers, album_id,
                   photos_info, files_info, dirname, duplicate_names, output_json, idx,
                   calls, responses, stdout, raised, exit_status, output_file>>

(* ------------------------------ __main__ ------------------------------ *)

\* What the user may type at the prompts (the empty line included).
UserIds == {"1", "42"}
AlbumInputs == {"", "wall"}
DirnameInputs == {"", "backup"}

\* Positional parameters get_photos_info requires besides self (album_id),
\* and the arguments the call on line 156 passes.
get_photos_info_params == <<"album_id">>
main_call_args == <<>>

\* Lines 146-168, one statement group per step.  The steps from L157 on run
\* only once the call on line 156 has returned.
main ==
    /\ entry = "__main__"
    /\ pc \in {"L147", "L150", "L151", "L155", "L156", "L157", "L159", "L165"}
    /\ CASE pc = "L147" ->
              \* the access token from settings.ini
              /\ main_locals' = [main_locals EXCEPT !.vk_token = "vk-token"]
              /\ pc' = "L150"
              /\ UNCHANGED <<vk_params, disk_headers, album_id, files_info, dirname,
                             stdout, raised, exit_status, output_file>>
         [] pc = "L150" ->
              /\ \E typed \in UserIds :
                   main_locals' = [main_locals EXCEPT !.user_id = typed]
              /\ pc' = "L151"
              /\ UNCHANGED <<vk_params, disk_headers, album_id, files_info, dirname,
                             stdout, raised, exit_status, output_file>>
         [] pc = "L151" ->
              /\ \E typed \in AlbumInputs :
                   main_locals' = [main_locals EXCEPT
                                     !.album_id = IF typed = "" THEN "profile" ELSE typed]
              /\ pc' = "L155"
              /\ UNCHANGED <<vk_params, disk_headers, album_id, files_info, dirname,
                             stdout, raised, exit_status, output_file>>
         [] pc = "L155" ->
              \* VKClient(vk_token, user_id, album_id): the third positional
              \* parameter of __init__ is version
              /\ vk_params' = VKClient_init(main_locals.vk_token, main_locals.user_id,
                                            main_locals.album_id)
              /\ pc' = "L156"
              /\ UNCHANGED <<main_locals, disk_headers, album_id, files_info, dirname,
                             stdout, raised, exit_status, output_file>>
         [] pc = "L156" ->
              \* vk_client.get_photos_info()
              /\ IF Len(main_call_args) # Len(get_photos_info_params)
                 THEN Terminate("TypeError", <<>>) /\ UNCHANGED album_id
                 ELSE /\ album_id' = main_call_args[1]
                      /\ pc' = "get_photos_info"
                      /\ UNCHANGED <<stdout, raised, exit_status>>
              /\ UNCHANGED <<main_locals, vk_params, disk_headers, files_info, dirname,
                             output_file>>
         [] pc = "L157" ->
              /\ stdout' = Append(stdout, "")
              /\ pc' = "L159"
              /\ UNCHANGED <<main_locals, vk_params, disk_headers, album_id, files_info,
                             dirname, raised, exit_status, output_file>>
         [] pc = "L159" ->
              \* lines 159-163: the Disk token, the directory name, the call
              /\ disk_headers' = DiskClient_init("disk-token")
              /\ \E typed \in DirnameInputs : dirname' = typed
              /\ files_info' = photos_info[1]
              /\ pc' = "upload_files"
              /\ UNCHANGED <<main_locals, vk_params, album_id, stdout, raised,
                             exit_status, output_file>>
         [] pc = "L165" ->
              \* lines 165-168: output.json, then 'Done!'
              /\ output_file' = response_json
              /\ stdout' = Append(stdout, "Done!")
              /\ pc' = "finished"
              /\ UNCHANGED <<main_locals, vk_params, disk_headers, album_id, files_info,
                             dirname, raised, exit_status>>
    /\ UNCHANGED <<entry, utc_offset, photos_info, duplicate_names, output_json, idx,
                   response_json, calls, responses>>

(* --------------------------- specification ---------------------------- *)

NoLocals == [vk_token |-> "", user_id |-> "", album_id |-> ""]

\* The state before the entry point runs.  Called directly, a method finds
\* its client constructed and its arguments bound.
Init ==
    /\ entry \in {"__main__", "get_photos_info", "upload_files"}
    /\ utc_offset \in TimeZones
    /\ photos_info = None
    /\ duplicate_names = {}
    /\ output_json = None
    /\ idx = 0
    /\ response_json = None
    /\ calls = <<>>
    /\ responses = <<>>
    /\ stdout = <<>>
    /\ raised = ""
    /\ exit_status = 0
    /\ output_file = None
    /\ main_locals = NoLocals
    /\ CASE entry = "__main__" ->
              /\ pc = "L147"
              /\ vk_params = VKClient_init("", "", "")
              /\ disk_headers = DiskClient_init("")
              /\ album_id = ""
              /\ files_info = <<>>
              /\ dirname = ""
         [] entry = "get_photos_info" ->
              /\ pc = "get_photos_info"
              /\ \E user_id \in UserIds : vk_params = VKClient_init("vk-token", user_id, "5.199")
              /\ album_id \in {"profile", "wall"}
              /\ disk_headers = DiskClient_init("")
              /\ files_info = <<>>
              /\ dirname = ""
         [] entry = "upload_files" ->
              /\ pc = "upload_files"
              /\ vk_params = VKClient_init("", "", "")
              /\ album_id = ""
              /\ disk_headers = DiskClient_init("disk-token")
              /\ files_info \in SeqUpTo(Photos, MaxPhotos)
              /\ dirname \in {"reserve_copy"}

Next ==
    \/ main
    \/ get_photos_info
    \/ upload_files_start
    \/ upload_files_iteration
    \/ upload_files_return

Spec == Init /\ [][Next]_vars

(* ------------------------- observing a run ---------------------------- *)

\* The HTTP exchanges so far: every request with the response it got.
Exchanges == [k \in 1..Len(calls) |-> [request |-> calls[k], response |-> responses[k]]]

IsUpload(e) == e.request.method = "POST"
IsDiskCall(e) == e.request.method # "GET"

\* The exchanges of the upload pass: folder creation first, then uploads.
DiskExchanges == SelectSeq(Exchanges, IsDiskCall)
Uploads == SelectSeq(Exchanges, IsUpload)

\* A Disk response the caller goes on with: no error status, a JSON body
\* without error key and with a link.
Accepted(r) ==
    /\ ~Failed(r.status)
    /\ r.body.kind = "json"
    /\ r.body.error = None
    /\ r.body.href # None

\* The same for photos.get, whose body carries items.
AcceptedByVK(r) ==
    /\ ~Failed(r.status)
    /\ r.body.kind = "json"
    /\ r.body.error = None
    /\ r.body.items # None

LastLine == IF stdout = <<>> THEN "" ELSE stdout[Len(stdout)]

LocalDate(i) == localtime(files_info[i].date, utc_offset)

\* The name the naming rule gives the i-th record of files_info.
ExpectedName(i) ==
    LET base == FormatInt(files_info[i].likes)
        occurrences == Cardinality({ j \in DOMAIN files_info :
                                       files_info[j].likes = files_info[i].likes })
        created == LocalDate(i)
    IN  IF occurrences = 1 THEN base
        ELSE base \o "-" \o Pad2(created.tm_mday) \o "_" \o Pad2(created.tm_mon)
                  \o "_" \o FormatInt(created.tm_year)

ExampleInput ==
    /\ utc_offset = 3 * 3600
    /\ Len(files_info) = 3
    /\ [i \in 1..3 |-> files_info[i].likes] = <<5, 5, 7>>
    /\ [i \in 1..3 |-> files_info[i].date] = <<1619870400, 1619902800, 1619870400>>

(* ------------------------------ claims -------------------------------- *)

\* C1: every record whose like-count occurs once in files_info is uploaded
\* under the decimal like-count, every other one under the like-count, "-"
\* and the zero-padded day_month_year of its local creation date; like-counts
\* [5, 5, 7] created on 2021-05-01, 2021-05-02, 2021-05-01 are named
\* "5-01_05_2021", "5-02_05_2021", "7".
C1_NamesAssigned ==
    /\ LET uploads == Uploads IN
       \A i \in 1..Len(uploads) :
         uploads[i].request.params.path = dirname \o "/" \o ExpectedName(i)
    /\ output_json # None =>
         \A i \in 1..Len(output_json[1].items) :
            output_json[1].items[i].name = ExpectedName(i)
    /\ (ExampleInput /\ response_json # None) =>
         [i \in 1..3 |-> response_json[1].items[i].name]
            = <<"5-01_05_2021", "5-02_05_2021", "7">>

C1_Witness ==
    /\ ExampleInput
    /\ response_json # None
    /\ response_json[1].items[2].name = "5-02_05_2021"
    /\ response_json[1].items[3].name = "7"

\* C2: a manifest returned by upload_files has count equal to the number of
\* its items, the empty input included.
C2_CountMatchesItems ==
    response_json # None => response_json[1].count = Len(response_json[1].items)

C2_Witness ==
    /\ response_json # None
    /\ response_json[1].count = 2
    /\ Len(response_json[1].items) = 2

\* C3: a manifest returned for N records has N items, the i-th one holding
\* the name, height and width of the i-th record and the link the i-th
\* upload call answered.
C3_ItemsFollowInput ==
    response_json # None =>
        LET uploads == Uploads IN
        /\ Len(response_json[1].items) = Len(files_info)
        /\ Len(uploads) = Len(files_info)
        /\ \A i \in 1..Len(files_info) :
             response_json[1].items[i] =
                [name |-> ExpectedName(i),
                 href |-> uploads[i].response.body.href[1],
                 height |-> files_info[i].height,
                 width |-> files_info[i].width]

C3_Witness ==
    /\ response_json # None
    /\ Len(files_info) = 3
    /\ files_info[1].height # files_info[2].height
    /\ response_json[1].items[1].href # response_json[1].items[3].href
    /\ response_json[1].items[2].height = files_info[2].height

\* C4: a response with a 4xx status ends the run with the client error
\* message, one with a 5xx status with the server error message, whatever
\* the body; nothing is requested afterwards and output.json is not written.
C4_HttpErrorEndsRun ==
    \A k \in 1..Len(responses) :
        LET code == responses[k].status IN
        /\ (400 <= code /\ code <= 499) =>
              /\ k = Len(responses)
              /\ pc = "halted"
              /\ raised = "SystemExit"
              /\ LastLine = "Client error " \o FormatInt(code)
              /\ response_json = None
              /\ output_file = None
        /\ (500 <= code /\ code <= 599) =>
              /\ k = Len(responses)
              /\ pc = "halted"
              /\ raised = "SystemExit"
              /\ LastLine = "Server error " \o FormatInt(code)
              /\ response_json = None
              /\ output_file = None

C4_Witness ==
    /\ pc = "halted"
    /\ Len(Uploads) = 2
    /\ Uploads[2].response.status = 400
    /\ Uploads[2].response.body.href # None
    /\ LastLine = "Client error 400"
    /\ output_file = None

\* C5: a response with status 200 whose body has an error object ends the
\* run with the API error message; nothing is requested afterwards and
\* output.json is not written.
C5_ApiErrorEndsRun ==
    \A k \in 1..Len(responses) :
        (responses[k].status = 200 /\ responses[k].body.error # None) =>
            /\ k = Len(responses)
            /\ pc = "halted"
            /\ raised = "SystemExit"
            /\ LastLine = "Error. " \o responses[k].body.error[1].error_msg
            /\ response_json = None
            /\ output_file = None

C5_Witness ==
    /\ pc = "halted"
    /\ Len(Uploads) = 1
    /\ Uploads[1].response.status = 200
    /\ Uploads[1].response.body.error # None
    /\ LastLine = "Error. Access denied"

\* C6: when the k-th upload call fails, the upload calls issued are exactly
\* one per record 1..k in order, no manifest is returned and output.json is
\* not written.
C6_UploadFailureAborts ==
    LET uploads == Uploads IN
    \A k \in 1..Len(uploads) :
        ~Accepted(uploads[k].response) =>
            /\ k = Len(uploads)
            /\ pc = "halted"
            /\ idx = k - 1
            /\ Len(output_json[1].items) = k - 1
            /\ \A j \in 1..k : uploads[j].request.params.url = files_info[j].url
            /\ response_json = None
            /\ output_file = None

C6_Witness ==
    /\ Len(files_info) = 3
    /\ Len(Uploads) = 2
    /\ Uploads[2].response.status = 500
    /\ Uploads[2].response.body.href # None
    /\ pc = "halted"
    /\ response_json = None

\* C7: an error found by the response check ends the run with a non-zero
\* exit status before output.json is written.
C7_ErrorExitsNonZero ==
    (pc = "halted" /\ raised = "SystemExit") =>
        (exit_status # 0 /\ output_file = None)

\* C8: a run of the script in which no response is an error ends with
\* output.json written and equal to the manifest upload_files returned.
C8_ScriptWritesManifest ==
    (/\ entry = "__main__"
     /\ pc \in {"halted", "finished"}
     /\ \A k \in 1..Len(Exchanges) :
          IF IsDiskCall(Exchanges[k]) THEN Accepted(responses[k])
          ELSE AcceptedByVK(responses[k]))
    => (/\ pc = "finished"
        /\ response_json # None
        /\ output_file = response_json)

\* C9: when records of equal like-count always differ in local creation
\* date, all names assigned in the pass differ, and so do the paths of the
\* upload calls.
C9_NamesDistinct ==
    (\A i, j \in 1..Len(files_info) :
        (i # j /\ files_info[i].likes = files_info[j].likes)
            => LocalDate(i) # LocalDate(j))
    => /\ LET uploads == Uploads IN
          \A i, j \in 1..Len(uploads) :
            i # j => uploads[i].request.params.path # uploads[j].request.params.path
       /\ output_json # None =>
            \A i, j \in 1..Len(output_json[1].items) :
               i # j => output_json[1].items[i].name # output_json[1].items[j].name

C9_Witness ==
    /\ response_json # None
    /\ Len(files_info) = 3
    /\ files_info[1].likes = files_info[3].likes
    /\ files_info[1].likes # files_info[2].likes
    /\ LocalDate(1) # LocalDate(3)
    /\ LocalDate(1) = LocalDate(2)
    /\ response_json[1].items[1].name # response_json[1].items[3].name

\* C10: a pass that returns a manifest for N records made N+1 calls: the
\* folder creation, then for i = 1..N the upload of the i-th record's url to
\* dirname/name_i; an upload is only ever issued after the folder creation
\* was answered without error.
C10_CallSequence ==
    LET disk_exchanges == DiskExchanges IN
    /\ response_json # None =>
         /\ Len(disk_exchanges) = Len(files_info) + 1
         /\ disk_exchanges[1].request = [method |-> "PUT", url |-> DISK_BASE_URL,
                                        params |-> [path |-> dirname],
                                        headers |-> disk_headers]
         /\ \A i \in 1..Len(files_info) :
              disk_exchanges[i + 1].request =
                 [method |-> "POST", url |-> DISK_BASE_URL \o "/upload",
                  params |-> [path |-> dirname \o "/" \o ExpectedName(i),
                              url |-> files_info[i].url],
                  headers |-> disk_headers]
    /\ Len(disk_exchanges) >= 1 =>
         /\ disk_exchanges[1].request.method = "PUT"
         /\ \A k \in 2..Len(disk_exchanges) : disk_exchanges[k].request.method = "POST"
         /\ ~Accepted(disk_exchanges[1].response) => Len(disk_exchanges) = 1
    /\ Len(disk_exchanges) <= Len(files_info) + 1

C10_Witness ==
    /\ response_json # None
    /\ Len(files_info) = 3
    /\ Len(DiskExchanges) = 4
    /\ DiskExchanges[4].request.params.url = files_info[3].url

====
